---- MODULE Spec2Model ----
(***************************************************************************)
(* DT-BASE causal model (dtbase/dtbase.py, dtbase/data.py) and its         *)
(* quantification engine (dtbase/quantify.py).                             *)
(*                                                                         *)
(* Numbers.  numpy works on float64 arrays; the model works on exact       *)
(* values <<n, d>>:                                                        *)
(*   d > 0            the rational n/d in lowest terms                     *)
(*   <<1, 0>>         +inf        <<-1, 0>>  -inf        <<0, 0>>  nan     *)
(*   <<s, -1>>        a finite value the model does not track: positive    *)
(*                    (s = 1: x ** w when no rational equals it, the       *)
(*                    normal quantile), negative (s = -1), or of a sign    *)
(*                    that is not tracked either (s = 0)                   *)
(* Node identifiers are 1..MaxNodes and link identifiers 1..MaxLinks; the  *)
(* order of the numbers is the sort order of the identifiers.              *)
(***************************************************************************)
EXTENDS Integers, Sequences, FiniteSets, TLC

\* ------------------------------------------------------------------ bounds
MaxNodes == 2
MaxLinks == 2
MaxRefs == 1
\* length of a Monte Carlo sample vector (sample_size, 1e5 in the source)
SampleSize == 1

NodeIds == 1..MaxNodes
LinkIds == 1..MaxLinks
RefIds == 1..MaxRefs
\* a ref_id column that is null (Link.ref_id = None)
NoRef == 0
Idx == 1..SampleSize

\* --------------------------------------------------------- scalar numbers
NaN == <<0, 0>>
PosInf == <<1, 0>>
NegInf == <<-1, 0>>
PosReal == <<1, -1>>
NegReal == <<-1, -1>>
AnyReal == <<0, -1>>

Abs(n) == IF n < 0 THEN -n ELSE n
Sgn(n) == IF n < 0 THEN -1 ELSE IF n > 0 THEN 1 ELSE 0

RECURSIVE Gcd(_, _)
Gcd(a, b) == IF b = 0 THEN a ELSE Gcd(b, a % b)

\* the rational n/d (d /= 0) in lowest terms with a positive denominator
Rat(n, d) ==
    LET g == Gcd(Abs(n), Abs(d))
        s == Sgn(d)
    IN  <<(s * n) \div g, (s * d) \div g>>

Zero == Rat(0, 1)
One == Rat(1, 1)
\* float64 -0.0, the zero with the sign bit set (equal to 0.0 in every
\* comparison): the zero that Rat never gives
NegZero == <<0, 2>>

IsNaN(x) == x = NaN
IsInf(x) == x[2] = 0 /\ x[1] # 0
\* a value the model has exactly, and a finite value it does not track
IsRat(x) == x[2] > 0
IsReal(x) == x[2] < 0
IsZero(x) == x[1] = 0 /\ x[2] > 0
\* the sign of a value that is not nan and not AnyReal
SignOf(x) == Sgn(x[1])
\* the sign bit of a value that is not nan and not AnyReal: -1 when set
SignBit(x) == IF IsZero(x) THEN (IF x = NegZero THEN -1 ELSE 1) ELSE Sgn(x[1])
\* the zero with the sign s
ZeroOf(s) == IF s < 0 THEN NegZero ELSE Zero

\* float64 x * y: the sign of a product is the product of the signs, for a
\* zero too.  An infinity or a zero times AnyReal is outside the domain (the
\* product is nan, or has a sign, as the factor's sign and zero-ness say):
\* the operator has no value there.
RMul(x, y) ==
    IF IsNaN(x) \/ IsNaN(y) THEN NaN
    ELSE IF IsInf(x) \/ IsInf(y)
         THEN CASE x # AnyReal /\ y # AnyReal ->
                  (IF SignOf(x) * SignOf(y) = 0 THEN NaN
                   ELSE <<SignOf(x) * SignOf(y), 0>>)
    ELSE IF IsZero(x) \/ IsZero(y)
         THEN CASE x # AnyReal /\ y # AnyReal -> ZeroOf(SignBit(x) * SignBit(y))
    ELSE IF IsReal(x) \/ IsReal(y)
         THEN (IF x = AnyReal \/ y = AnyReal THEN AnyReal
               ELSE <<SignOf(x) * SignOf(y), -1>>)
    ELSE LET g1 == Gcd(Abs(x[1]), y[2])
             g2 == Gcd(Abs(y[1]), x[2])
         IN  Rat((x[1] \div g1) * (y[1] \div g2), (x[2] \div g2) * (y[2] \div g1))

\* float64 x + y: a sum of two zeros is -0.0 when both are, and a sum that
\* cancels is 0.0; a sum with a term that is not tracked keeps the sign the
\* two terms share, and is AnyReal when they share none
RAdd(x, y) ==
    IF IsNaN(x) \/ IsNaN(y) THEN NaN
    ELSE IF IsInf(x) /\ IsInf(y) THEN (IF x = y THEN x ELSE NaN)
    ELSE IF IsInf(x) THEN x
    ELSE IF IsInf(y) THEN y
    ELSE IF IsZero(x) /\ IsZero(y)
         THEN (IF x = NegZero /\ y = NegZero THEN NegZero ELSE Zero)
    ELSE IF IsZero(x) THEN y
    ELSE IF IsZero(y) THEN x
    ELSE IF IsReal(x) \/ IsReal(y)
         THEN (IF SignOf(x) = SignOf(y) THEN <<SignOf(x), -1>> ELSE AnyReal)
    ELSE LET g == Gcd(x[2], y[2])
         IN  Rat(x[1] * (y[2] \div g) + y[1] * (x[2] \div g), (x[2] \div g) * y[2])

\* float64 -x: the sign bit flipped, of a zero too
RNeg(x) == IF IsZero(x) THEN ZeroOf(-SignBit(x)) ELSE <<-x[1], x[2]>>

\* float64 x - y
RSub(x, y) == RAdd(x, RNeg(y))

\* float64 x / y: a zero divisor gives nan (0/0) or an infinity, and a zero
\* or an infinity under a finite x gives a zero, each with the product of
\* the two signs.  A divisor AnyReal, and AnyReal over a zero or an
\* infinity, are outside the domain (the quotient, or its sign, is as the
\* value not tracked says): the operator has no value there.
RDiv(x, y) ==
    IF IsNaN(x) \/ IsNaN(y) THEN NaN
    ELSE IF IsInf(x) /\ IsInf(y) THEN NaN
    ELSE IF y = AnyReal \/ (x = AnyReal /\ (IsZero(y) \/ IsInf(y)))
         THEN CASE FALSE -> NaN
    ELSE IF IsInf(y) THEN ZeroOf(SignBit(x) * SignBit(y))
    ELSE IF IsInf(x) THEN <<SignBit(x) * SignBit(y), 0>>
    ELSE IF IsZero(y)
         THEN (IF IsZero(x) THEN NaN ELSE <<SignBit(x) * SignBit(y), 0>>)
    ELSE IF IsZero(x) THEN ZeroOf(SignBit(x) * SignBit(y))
    ELSE IF IsReal(x) \/ IsReal(y)
         THEN (IF x = AnyReal THEN AnyReal ELSE <<SignOf(x) * SignOf(y), -1>>)
    ELSE RMul(x, Rat(y[2], y[1]))

\* float64 x <= y: false with a nan, and -0.0 is 0.0.  Two values of which
\* one is not tracked are ordered by their signs; when the signs do not
\* order them (AnyReal, or two values of one sign) the pair is outside the
\* domain: the operator has no value there.
RLe(x, y) ==
    IF IsNaN(x) \/ IsNaN(y) THEN FALSE
    ELSE IF x = NegInf \/ y = PosInf THEN TRUE
    ELSE IF IsInf(x) \/ IsInf(y) THEN FALSE
    ELSE IF IsReal(x) \/ IsReal(y)
         THEN CASE x # AnyReal /\ y # AnyReal /\ SignOf(x) # SignOf(y) ->
                  SignOf(x) < SignOf(y)
    ELSE x[1] * y[2] <= y[1] * x[2]

RECURSIVE IPow(_, _)
IPow(b, e) == IF e = 0 THEN 1 ELSE b * IPow(b, e - 1)

\* the integer r >= 0 with r^d = n, or -1 when n is no perfect d-th power
IRoot(n, d) ==
    LET S == {r \in 0..n : IPow(r, d) = n}
    IN  IF S = {} THEN -1 ELSE CHOOSE r \in S : TRUE

\* float64 x ** w (C pow): x ** 0 and 1 ** w are 1, for a nan operand too;
\* any other power with a nan is nan (a value that is not tracked may be
\* the 1 of a base, and AnyReal the 0 of an exponent: the power of such a
\* value with a nan has no value).  x ** +-inf goes by |x| against 1;
\* +-inf ** w and 0 ** w by the sign of w (0 ** w is an infinity for
\* w < 0), with the sign of the base when w is an odd whole number; a
\* negative base gives nan unless the exponent is a whole number.  Where a
\* value that is not tracked leaves the result open (such a value against
\* 1, or as the exponent of a negative base) the operator has no value.
RPow(x, w) ==
    IF IsZero(w) \/ x = One THEN One
    ELSE IF IsNaN(x) \/ IsNaN(w)
         THEN CASE x # PosReal /\ x # AnyReal /\ w # AnyReal -> NaN
    ELSE IF IsInf(w)
         THEN CASE IsRat(x) \/ IsInf(x) ->
                  IF IsRat(x) /\ Abs(x[1]) = x[2] THEN One
                  ELSE IF (IsInf(x) \/ Abs(x[1]) > x[2]) = (w = PosInf) THEN PosInf
                  ELSE Zero
    ELSE IF IsInf(x) \/ IsZero(x)
         THEN CASE w # AnyReal /\ (SignBit(x) > 0 \/ IsRat(w)) ->
                  LET s == IF SignBit(x) < 0 /\ w[2] = 1 /\ Abs(w[1]) % 2 = 1
                           THEN -1 ELSE 1
                  IN  IF IsInf(x) = (SignOf(w) > 0) THEN <<s, 0>> ELSE ZeroOf(s)
    ELSE IF IsReal(x) \/ IsReal(w)
         THEN CASE SignOf(x) > 0 /\ x # AnyReal -> PosReal
                [] x = NegReal /\ IsRat(w) ->
                  IF w[2] # 1 THEN NaN
                  ELSE IF Abs(w[1]) % 2 = 1 THEN NegReal ELSE PosReal
    ELSE IF x[1] < 0 /\ w[2] # 1 THEN NaN
    ELSE LET rn == IRoot(Abs(x[1]), w[2])
             rd == IRoot(x[2], w[2])
             e == Abs(w[1])
             s == IF x[1] < 0 /\ e % 2 = 1 THEN -1 ELSE 1
         IN  IF rn < 0 \/ rd < 0 THEN PosReal
             ELSE IF w[1] > 0 THEN Rat(s * IPow(rn, e), IPow(rd, e))
             ELSE Rat(s * IPow(rd, e), IPow(rn, e))

\* ------------------------------------------------------- numpy arrays
\* np.zeros(sample_size), np.ones(sample_size)
zeros == [i \in Idx |-> Zero]
ones == [i \in Idx |-> One]

VMul(u, v) == [i \in Idx |-> RMul(u[i], v[i])]
VAdd(u, v) == [i \in Idx |-> RAdd(u[i], v[i])]
VSub(u, v) == [i \in Idx |-> RSub(u[i], v[i])]
VDiv(u, v) == [i \in Idx |-> RDiv(u[i], v[i])]
VPow(u, v) == [i \in Idx |-> RPow(u[i], v[i])]

RECURSIVE SumTo(_, _)
SumTo(v, n) == IF n = 1 THEN v[1] ELSE RAdd(SumTo(v, n - 1), v[n])

\* np.mean(c)
Mean(c) == RDiv(SumTo(c, SampleSize), Rat(SampleSize, 1))

\* np.std(c) is the square root of the mean squared deviation; the table
\* keeps the mean squared deviation itself (the square root of a rational
\* is not a rational in general, and the two determine one another)
Std2(c) ==
    LET m == Mean(c)
        dev == [i \in Idx |-> RMul(RSub(c[i], m), RSub(c[i], m))]
    IN  RDiv(SumTo(dev, SampleSize), Rat(SampleSize, 1))

\* ------------------------------------------------------------ estimates
\* EstimateTypes
UNIFORM == "UNIFORM"
NORMAL == "NORMAL"

\* the (estimate_type, a, b) columns of a links row
Est(t, a, b) == [estimate_type |-> t, a |-> a, b |-> b]

\* What a generator gives is not the caller's to choose, and it is any
\* double of the distribution's range.  The model keeps MaxDraw places of
\* each distribution, evenly spaced; g, the generator's output, says which
\* place each sample index gets.
MaxDraw == 5
DrawPoints == 0..(MaxDraw - 1)
Generators == [Idx -> DrawPoints]
Draw(points, g) == [i \in Idx |-> points[g[i]]]

\* Generator.uniform(low, high, n): low + (high - low) * u with u in [0, 1),
\* at u = 0, 1/MaxDraw, 2/MaxDraw, ..
rng_uniform(low, high, g) ==
    Draw([k \in DrawPoints |->
             RAdd(low, RMul(RSub(high, low), Rat(k, MaxDraw)))], g)

\* Generator.normal(loc, scale, n) with scale = num / z, z = ppf(.95):
\* loc + d * scale at the deviates d = z * j / 2 for the whole numbers j
\* of the same parity as MaxDraw - 1 from -(MaxDraw - 1) to MaxDraw - 1:
\* places num apart, about the mean, that reach into both tails beyond
\* loc -+ num, the ends of the 90% interval.  (scale >= 0; a
\* negative one raises.)
rng_normal(loc, num, g) ==
    Draw([k \in DrawPoints |->
             RAdd(loc, RMul(Rat(2 * k - (MaxDraw - 1), 2), num))], g)

\* Estimate.uniform: rng.uniform(self.a, self.b, sample_size)
uniform(e, g) == rng_uniform(e.a, e.b, g)

\* scipy.stats.norm.ppf(q): nan outside [0, 1], -inf at 0, +inf at 1, 0 at
\* 1/2; above 1/2 a positive value that is not tracked (1.6448... at .95),
\* below 1/2 a negative one.
ppf(q) ==
    IF ~RLe(Zero, q) \/ ~RLe(q, One) THEN NaN
    ELSE IF IsZero(q) THEN NegInf
    ELSE IF q = One THEN PosInf
    ELSE IF q = Rat(1, 2) THEN Zero
    ELSE IF RLe(q, Rat(1, 2)) THEN NegReal
    ELSE PosReal

\* Estimate.normal, line 50: mp = (self.b - self.a) / 2
normal_mp(e) == RDiv(RSub(e.b, e.a), Rat(2, 1))

\* Estimate.normal, lines 51-52: z = norm.ppf(.95), sd = (self.b - mp) / z;
\* the quotient is kept as its two terms
normal_sd(e) == [num |-> RSub(e.b, normal_mp(e)), z |-> ppf(Rat(19, 20))]

\* Estimate.normal: rng.normal(mp, sd, sample_size)
normal(e, g) == rng_normal(normal_mp(e), normal_sd(e).num, g)

\* Estimate.__init__: self.sample, drawn on construction from a new
\* np.random.default_rng()
Estimate(e, g) ==
    IF e.estimate_type = NORMAL THEN normal(e, g) ELSE uniform(e, g)

\* the m1 (credibility), m2 (evidence strength), m3 (confidence) estimates
\* the caller gives link l: an interval for m1 on the odd links, a normal
\* estimate for m2 on the even ones
LinkEstimates(l) ==
    IF l % 2 = 1
    THEN [m1 |-> Est(UNIFORM, Rat(1, 2), Rat(1, 1)),
          m2 |-> Est(UNIFORM, Rat(3, 4), Rat(3, 4)),
          m3 |-> Est(UNIFORM, Rat(1, 1), Rat(1, 1))]
    ELSE [m1 |-> Est(UNIFORM, Rat(1, 1), Rat(1, 1)),
          m2 |-> Est(NORMAL, Rat(0, 1), Rat(1, 2)),
          m3 |-> Est(UNIFORM, Rat(1, 2), Rat(1, 2))]

\* ---------------------------------------------------------------- state
VARIABLES
    graph_nodes,    \* dtbasemodel.graph: the nodes of the MultiDiGraph
    graph_edges,    \* dtbasemodel.graph: its edges [u, v, key, link_id], each
                    \* with its place in the dicts of the graph (pos, pair)
    db_nodes,       \* DB: the node_id column of the nodes table
    db_links,       \* DB: the links table, link_id -> row
    db_sources,     \* DB: the ref_id column of the sources table
    op,             \* the last dtbasemodel call: the method and how it ended
    \* the last quantify.calculate call: its arguments, how it ended, and
    \* the values of its locals
    target_node, ag_method, outcome,
    seen,           \* the samples read from the Link objects get_link returned
    Z, weights,     \* calc_normalized_weights: Z and the returned weights
    aggregated_cp,  \* the map calc_cp_arithmetic / calc_cp_geometric returned
    cp_after,       \* the same defaultdict once every calc_noisy_or has run
    pred,           \* set(model.graph.predecessors(target_node)) as iterated
    combined,       \* combo -> c, the array calc_noisy_or returned for it
    cpt,            \* the returned table, combo -> (np.mean(c), np.std(c))
    prev,           \* the calculate call before the last one, when two were
                    \* made on the same model: its arguments, outcome and table
    exported,       \* the last quantify.export_cpt call: its outcome and the file
    estimate,       \* the last Estimate constructed on its own
    new_link,       \* the last Link constructed on its own
    nx_graph,       \* graph.py, model.graph: the nodes and edges of the MultiDiGraph
    link_ids,       \* graph.py, model.link_ids
    model_op        \* the last call on the graph.py model and how it ended

model_vars == <<graph_nodes, graph_edges, db_nodes, db_links, db_sources>>
call_vars == <<target_node, ag_method, outcome, seen, Z, weights,
               aggregated_cp, cp_after, pred, combined, cpt, prev, exported>>
graph_vars == <<nx_graph, link_ids, model_op>>
object_vars == <<estimate, new_link, graph_vars>>
vars == <<model_vars, op, call_vars, object_vars>>

\* AggregationMethod
ARITHMETIC == "ARITHMETIC"
GEOMETRIC == "GEOMETRIC"

\* the empty function (an empty dict)
EmptyMap == [x \in {} |-> {}]

\* a dict as an evaluated value (the same function, computed once)
Value(f) == f @@ EmptyMap

\* no call made: the record of a call with no outcome
NoPrev == [target_node |-> 0, ag_method |-> "none", outcome |-> "none",
           cpt |-> EmptyMap]
NoExport == [outcome |-> "none", file |-> "absent"]
NoEstimate == [class |-> "none", given |-> <<>>, outcome |-> "none",
               mp |-> NaN, sd |-> [num |-> NaN, z |-> NaN],
               sample |-> <<>>]

\* the objects given for m1, m2 and m3: an Estimate of model/estimate.py, a
\* Uniform and a Normal of model/uncertainty.py, a float, None
Obj(e) == [class |-> "estimate.Estimate", value |-> e]
Uniform(a, b) == [class |-> "uncertainty.Uniform", value |-> <<a, b>>]
Normal(a, b) == [class |-> "uncertainty.Normal", value |-> <<a, b>>]
Float(x) == [class |-> "float", value |-> x]
None == [class |-> "NoneType", value |-> <<>>]

\* the three estimates of a Link as Link(...) is given them by a caller who
\* builds them with model/uncertainty.py, the classes Link.__init__ accepts
Constructed(est) ==
    [m \in {"m1", "m2", "m3"} |->
        IF est[m].estimate_type = NORMAL THEN Normal(est[m].a, est[m].b)
        ELSE Uniform(est[m].a, est[m].b)]

\* the three estimates of a Link whose m1, m2 and m3 were assigned Estimate
\* objects of model/estimate.py after its construction
Assigned(est) == [m \in {"m1", "m2", "m3"} |-> Obj(est[m])]

\* the Link objects a caller gives add_link for the estimates est
LinkObjects(est) == {Constructed(est), Assigned(est)}

\* Link.to_tuple (line 52): self.m1.to_tuple(), self.m2.to_tuple(),
\* self.m3.to_tuple(); Estimate of model/estimate.py has the method, the
\* classes of model/uncertainty.py, float and None do not (AttributeError)
Link_to_tuple(ms) ==
    \A m \in {"m1", "m2", "m3"} : ms[m].class = "estimate.Estimate"

\* isinstance(m, Estimate) in model/link.py, where Estimate is the class
\* line 1 imports: the Estimate of model/uncertainty.py, the base class of
\* Uniform and Normal
isinstance_Estimate(m) ==
    m.class \in {"uncertainty.Estimate", "uncertainty.Uniform", "uncertainty.Normal"}

\* Link.__init__, its three tests: m1, m2 and m2 again (lines 28, 30, 32)
Link_tests(m1, m2, m3) ==
    /\ isinstance_Estimate(m1)
    /\ isinstance_Estimate(m2)
    /\ isinstance_Estimate(m2)

NoLink == [outcome |-> "none", link_id |-> 0, parent_id |-> 0, child_id |-> 0,
           m1 |-> None, m2 |-> None, m3 |-> None]

\* graph.py, model.__init__: an empty MultiDiGraph and an empty set of link ids
model_init_seeded ==
    [graph |-> [nodes |-> {1}, edges |-> {}], link_ids |-> {1}]

model_init ==
    [graph |-> [nodes |-> {}, edges |-> {}], link_ids |-> {}]

NoCall ==
    /\ target_node' = 0
    /\ ag_method' = "none"
    /\ outcome' = "none"
    /\ seen' = [z |-> EmptyMap, w |-> EmptyMap, c |-> EmptyMap]
    /\ Z' = EmptyMap
    /\ weights' = EmptyMap
    /\ aggregated_cp' = EmptyMap
    /\ cp_after' = EmptyMap
    /\ pred' = <<>>
    /\ combined' = EmptyMap
    /\ cpt' = EmptyMap
    /\ prev' = NoPrev
    /\ exported' = NoExport

\* dtbasemodel.__init__ on a new database file: an empty graph and empty tables
Init ==
    /\ graph_nodes = {}
    /\ graph_edges = {}
    /\ db_nodes = {}
    /\ db_links = EmptyMap
    /\ db_sources = {}
    /\ op = [name |-> "__init__", id |-> NoRef, outcome |-> "ok"]
    /\ target_node = 0
    /\ ag_method = "none"
    /\ outcome = "none"
    /\ seen = [z |-> EmptyMap, w |-> EmptyMap, c |-> EmptyMap]
    /\ Z = EmptyMap
    /\ weights = EmptyMap
    /\ aggregated_cp = EmptyMap
    /\ cp_after = EmptyMap
    /\ pred = <<>>
    /\ combined = EmptyMap
    /\ cpt = EmptyMap
    /\ prev = NoPrev
    /\ exported = NoExport
    /\ estimate = NoEstimate
    /\ new_link = NoLink
    /\ nx_graph = model_init.graph
    /\ link_ids = model_init.link_ids
    /\ model_op = [name |-> "__init__", outcome |-> "ok"]

\* ------------------------------------------------- building the model
\* DB.links(): the set of link ids
links == DOMAIN db_links

\* the u -> v edges among the edges E, and an edge without its places
EdgesOf(E, u, v) == {d \in E : d.u = u /\ d.v = v}
Edge(d) == [u |-> d.u, v |-> d.v, key |-> d.key, link_id |-> d.link_id]

\* MultiDiGraph.new_edge_key(u, v): the number of u -> v edges, raised until
\* it is a key no u -> v edge has
RECURSIVE FreeKey(_, _)
FreeKey(keys, k) == IF k \in keys THEN FreeKey(keys, k + 1) ELSE k
\* a slip: every edge is given the key 0
new_edge_key_zero(u, v) == 0

new_edge_key(u, v) ==
    LET keys == {e.key : e \in EdgesOf(graph_edges, u, v)}
    IN  FreeKey(keys, Cardinality(keys))

\* the dict d after d[k] = v
Store(d, k, v) ==
    Value([x \in DOMAIN d \cup {k} |-> IF x = k THEN v ELSE d[x]])

\* the record of a dtbasemodel call: the method, the identifier it was given
\* (NoRef for a call that takes none) and how it ended
Op(name, id, out) == [name |-> name, id |-> id, outcome |-> out]

\* the rows of the links table that keep (the result of a delete)
Rows(keep) == Value([x \in keep |-> db_links[x]])

\* a call that raises before it changes anything
raises(name, id, error) ==
    /\ op' = Op(name, id, error)
    /\ UNCHANGED model_vars

\* a slip: the call on an id that is not there returns None
missing_ignored(name, id) == raises(name, id, "ok")

\* get_* and remove_* on an id the database lacks: raise KeyError
missing(name, id) == raises(name, id, "KeyError")

\* dtbasemodel.add_node(node): an id the database holds raises ValueError;
\* DB.add_node inserts the row and graph.add_node adds the node
add_node(n) ==
    /\ n \in NodeIds
    /\ IF n \in db_nodes
       THEN raises("add_node", n, "ValueError")
       ELSE /\ db_nodes' = db_nodes \cup {n}
            /\ graph_nodes' = graph_nodes \cup {n}
            /\ op' = Op("add_node", n, "ok")
            /\ UNCHANGED <<graph_edges, db_links, db_sources>>
    /\ NoCall
    /\ UNCHANGED object_vars

\* MultiDiGraph.add_edge(u, v, key=k, link_id=l) on the edges E: new
\* attributes for the u -> v edge that has the key already, or a new edge,
\* the last of its keydict (pos); the keydict of a pair that had no edge is
\* the last of the child's predecessors (pair)
add_edge(E, u, v, k, l) ==
    LET same == EdgesOf(E, u, v)
        old == {d \in same : d.key = k}
        pr == IF same = {}
              THEN Cardinality({d.u : d \in {x \in E : x.v = v}}) + 1
              ELSE (CHOOSE d \in same : TRUE).pair
        ps == IF old = {} THEN Cardinality(same) + 1
              ELSE (CHOOSE d \in old : TRUE).pos
    IN  (E \ old) \cup
            {[u |-> u, v |-> v, key |-> k, link_id |-> l, pos |-> ps, pair |-> pr]}

\* the edges E without the edges R (MultiDiGraph.remove_edge, remove_node):
\* the edges that stay keep their order in the dicts, a keydict left empty
\* goes
remove_edges(E, R) ==
    LET K == E \ R
    IN  {[d EXCEPT
            !.pos = Cardinality({x \in EdgesOf(K, d.u, d.v) : x.pos <= d.pos}),
            !.pair = Cardinality({x.u : x \in {y \in K : y.v = d.v /\ y.pair <= d.pair}})]
         : d \in K}

\* the links table of data.py: unique(parent_id, child_id, edge_key); the
\* foreign keys are declared and not enforced (sqlite3 leaves them off)
links_unique(row) ==
    \A x \in links :
        ~(/\ db_links[x].parent_id = row.parent_id
          /\ db_links[x].child_id = row.child_id
          /\ db_links[x].edge_key = row.edge_key)

\* DB.get_link(link_id): None when the links table has no such row; else
\* three Estimate objects of model/estimate.py are built from the row and
\* given to Link(...), whose tests raise TypeError for an object that is no
\* Estimate of model/uncertainty.py.  (The rows of this model have a <= b,
\* so that the Estimates are constructed.)
db_get_link(l) ==
    IF l \notin links THEN "None"
    ELSE IF Link_tests(Obj(db_links[l].m1), Obj(db_links[l].m2), Obj(db_links[l].m3))
    THEN "Link"
    ELSE "TypeError"

\* dtbasemodel.add_link(link): the lookup of line 36 raises TypeError (see
\* db_get_link) or finds the link id, which raises ValueError; a child that
\* is no node raises KeyError (get_node); the parent is not looked up (line
\* 42 tests the child again).  graph.add_edge adds the edge and the end
\* nodes the graph lacks.  Then DB.add_link calls link.to_tuple(), which
\* raises AttributeError for an estimate without the method, the edge
\* staying in the graph; else it inserts the row, or raises IntegrityError
\* when the table's primary key or its unique constraint rejects it.
add_link(l, p, c, ms, r) ==
    /\ l \in LinkIds
    /\ IF db_get_link(l) = "TypeError"
       THEN raises("add_link", l, "TypeError")
       ELSE IF db_get_link(l) = "Link"
       THEN raises("add_link", l, "ValueError")
       ELSE IF c \notin db_nodes
       THEN raises("add_link", l, "KeyError")
       ELSE LET k == new_edge_key(p, c)
                row == [parent_id |-> p, child_id |-> c, m1 |-> ms.m1.value,
                        m2 |-> ms.m2.value, m3 |-> ms.m3.value, ref_id |-> r,
                        edge_key |-> k]
            IN  /\ graph_edges' = add_edge(graph_edges, p, c, k, l)
                /\ graph_nodes' = graph_nodes \cup {p, c}
                /\ IF ~Link_to_tuple(ms)
                   THEN /\ UNCHANGED db_links
                        /\ op' = Op("add_link", l, "AttributeError")
                   ELSE IF l \notin links /\ links_unique(row)
                   THEN /\ db_links' = Store(db_links, l, row)
                        /\ op' = Op("add_link", l, "ok")
                   ELSE /\ UNCHANGED db_links
                        /\ op' = Op("add_link", l, "IntegrityError")
                /\ UNCHANGED <<db_nodes, db_sources>>
    /\ NoCall
    /\ UNCHANGED object_vars

\* the objects a caller gives add_reference: an object of the class reference
\* of model/reference.py as constructed (its __init__ stores no ref_id), the
\* same with ref_id set by the caller, and an object of the class Reference
\* that data.py imports (line 9), which has ref_id and to_tuple
ReferenceObjects ==
    {[class |-> "reference", attrs |-> {}],
     [class |-> "reference", attrs |-> {"ref_id"}],
     [class |-> "Reference", attrs |-> {"ref_id", "to_tuple"}]}

\* dtbasemodel.add_reference(reference): line 49 reads reference.ref_id
\* (AttributeError on an object without it); an id the database holds
\* raises ValueError; DB.add_reference inserts the row that
\* reference.to_tuple() gives (AttributeError on an object without it,
\* before the insert)
add_reference(r, ob) ==
    /\ r \in RefIds
    /\ IF "ref_id" \notin ob.attrs
       THEN raises("add_reference", r, "AttributeError")
       ELSE IF r \in db_sources
       THEN raises("add_reference", r, "ValueError")
       ELSE IF "to_tuple" \notin ob.attrs
       THEN raises("add_reference", r, "AttributeError")
       ELSE /\ db_sources' = db_sources \cup {r}
            /\ op' = Op("add_reference", r, "ok")
            /\ UNCHANGED <<graph_nodes, graph_edges, db_nodes, db_links>>
    /\ NoCall
    /\ UNCHANGED object_vars

\* a slip in DB.remove_node: the links out of the node are kept
db_remove_node_child(n) ==
    Rows({x \in links : db_links[x].child_id # n})

\* DB.remove_node(node_id), the links table after it: delete from links
\* where child_id = ? or parent_id = ?
db_remove_node(n) ==
    Rows({x \in links : db_links[x].child_id # n /\ db_links[x].parent_id # n})

\* dtbasemodel.remove_node(node_id): graph.remove_node takes the node and
\* its edges out of the graph; an id the database lacks raises KeyError
remove_node(n) ==
    /\ n \in NodeIds
    /\ IF n \notin db_nodes
       THEN missing("remove_node", n)
       ELSE /\ graph_nodes' = graph_nodes \ {n}
            /\ graph_edges' =
                  remove_edges(graph_edges, {d \in graph_edges : d.u = n \/ d.v = n})
            /\ db_nodes' = db_nodes \ {n}
            /\ db_links' = db_remove_node(n)
            /\ op' = Op("remove_node", n, "ok")
            /\ UNCHANGED db_sources
    /\ NoCall
    /\ UNCHANGED object_vars

\* dtbasemodel.remove_link(link_id): the lookup of line 81 raises TypeError
\* (see db_get_link); an id the database lacks raises KeyError; else
\* graph.remove_edge(parent_id, child_id, edge_key) with the row's values
\* (NetworkXError when the graph has no such edge), then DB.remove_link
remove_link(l) ==
    /\ l \in LinkIds
    /\ IF db_get_link(l) = "TypeError"
       THEN raises("remove_link", l, "TypeError")
       ELSE IF db_get_link(l) = "None"
       THEN missing("remove_link", l)
       ELSE LET row == db_links[l]
                E == {d \in graph_edges : /\ d.u = row.parent_id
                                          /\ d.v = row.child_id
                                          /\ d.key = row.edge_key}
            IN  IF E = {}
                THEN raises("remove_link", l, "NetworkXError")
                ELSE /\ graph_edges' = remove_edges(graph_edges, E)
                     /\ db_links' = Rows(links \ {l})
                     /\ op' = Op("remove_link", l, "ok")
                     /\ UNCHANGED <<graph_nodes, db_nodes, db_sources>>
    /\ NoCall
    /\ UNCHANGED object_vars

\* dtbasemodel.remove_reference(ref_id): DB.remove_reference deletes the
\* sources row and the links rows that name it (the graph is not touched);
\* an id the database lacks raises KeyError
remove_reference(r) ==
    /\ r \in RefIds
    /\ IF r \notin db_sources
       THEN missing("remove_reference", r)
       ELSE /\ db_sources' = db_sources \ {r}
            /\ db_links' = Rows({x \in links : db_links[x].ref_id # r})
            /\ op' = Op("remove_reference", r, "ok")
            /\ UNCHANGED <<graph_nodes, graph_edges, db_nodes>>
    /\ NoCall
    /\ UNCHANGED object_vars

\* dtbasemodel.clear(): DB.clear drops and re-creates the three tables,
\* graph.clear empties the graph
clear ==
    /\ db_nodes' = {}
    /\ db_links' = EmptyMap
    /\ db_sources' = {}
    /\ graph_nodes' = {}
    /\ graph_edges' = {}
    /\ op' = Op("clear", NoRef, "ok")
    /\ NoCall
    /\ UNCHANGED object_vars

\* dtbasemodel.get_node(node_id), get_link(link_id), get_reference(ref_id):
\* the object DB.get_* builds from the row, or KeyError when there is no row
dtbasemodel_get_node(n) ==
    /\ n \in NodeIds
    /\ IF n \notin db_nodes THEN missing("get_node", n) ELSE raises("get_node", n, "ok")
    /\ NoCall
    /\ UNCHANGED object_vars

\* dtbasemodel.get_link(link_id), how it ends: the TypeError of DB.get_link
\* for a row, KeyError for None
get_link_ends(l) ==
    IF db_get_link(l) = "None" THEN "KeyError"
    ELSE IF db_get_link(l) = "TypeError" THEN "TypeError"
    ELSE "ok"

dtbasemodel_get_link(l) ==
    /\ l \in LinkIds
    /\ IF get_link_ends(l) = "KeyError"
       THEN missing("get_link", l) ELSE raises("get_link", l, get_link_ends(l))
    /\ NoCall
    /\ UNCHANGED object_vars

dtbasemodel_get_reference(r) ==
    /\ r \in RefIds
    /\ IF r \notin db_sources
       THEN missing("get_reference", r) ELSE raises("get_reference", r, "ok")
    /\ NoCall
    /\ UNCHANGED object_vars

\* the members of S in ascending order
RECURSIVE Ascending(_)
Ascending(S) ==
    IF S = {} THEN <<>>
    ELSE LET x == CHOOSE y \in S : \A z \in S : y <= z
         IN  <<x>> \o Ascending(S \ {x})

Reverse(q) == [i \in 1..Len(q) |-> q[Len(q) + 1 - i]]

\* the order in which iterating a Python set of strings gives its members
\* is not fixed; two of the orders it can take
Orders(S) == {Ascending(S), Reverse(Ascending(S))}

\* build_graph, lines 19-21: the edges of the links of ids, in that order,
\* added to the edges E until get_link raises
RECURSIVE build_edges(_, _)
build_edges(ids, E) ==
    IF ids = <<>> THEN [edges |-> E, outcome |-> "ok"]
    ELSE IF get_link_ends(Head(ids)) # "ok"
    THEN [edges |-> E, outcome |-> get_link_ends(Head(ids))]
    ELSE LET row == db_links[Head(ids)]
         IN  build_edges(Tail(ids),
                         add_edge(E, row.parent_id, row.child_id, row.edge_key, Head(ids)))

\* dtbasemodel.build_graph(): graph.clear(), then the nodes of the store and
\* the edges of its links are added; the links are taken in the order of
\* the set links()
build_graph ==
    /\ \E ids \in Orders(links) :
       \E built \in {build_edges(ids, {})} :
          /\ graph_edges' = built.edges
          /\ graph_nodes' = db_nodes \cup {d.u : d \in built.edges}
                                     \cup {d.v : d \in built.edges}
          /\ op' = Op("build_graph", NoRef, built.outcome)
    /\ UNCHANGED <<db_nodes, db_links, db_sources>>
    /\ NoCall
    /\ UNCHANGED object_vars

\* -------------------------------------------------------- reading links
\* model.graph.predecessors(t): the nodes with an edge into t, and the order
\* the graph gives them in (the order of their keydicts, pair)
predecessors(t) == {e.u : e \in {d \in graph_edges : d.v = t}}

RECURSIVE PairSeq(_)
PairSeq(E) ==
    IF E = {} THEN <<>>
    ELSE LET e == CHOOSE x \in E : \A y \in E : x.pair <= y.pair
         IN  <<e.u>> \o PairSeq({d \in E : d.u # e.u})
predecessors_order(t) == PairSeq({d \in graph_edges : d.v = t})

\* model.graph.get_edge_data(p, t).values() as the link ids of the p -> t
\* edges, in the order of the keydict (the order the edges were added in)
RECURSIVE EdgeSeq(_)
EdgeSeq(E) ==
    IF E = {} THEN <<>>
    ELSE LET e == CHOOSE x \in E : \A y \in E : x.pos <= y.pos
         IN  <<e.link_id>> \o EdgeSeq(E \ {e})
get_edge_data(p, t) == EdgeSeq(EdgesOf(graph_edges, p, t))

\* the links whose child is t
LinksInto(t) == {e.link_id : e \in {d \in graph_edges : d.v = t}}

\* what the generators give while get_link builds the links L: one output
\* for each of the three Estimate objects of a link
LinkDraws(L) == [L -> [{"m1", "m2", "m3"} -> Generators]]

\* DB.get_link(link_id) when it returns a Link: each call builds three new
\* Estimate objects, and each of them samples on construction; m1, m2, m3
\* here are the .sample arrays of the three, and g is what their generators
\* give
get_link(l, g) ==
    [link_id |-> l, parent_id |-> db_links[l].parent_id,
     child_id |-> db_links[l].child_id,
     m1 |-> Estimate(db_links[l].m1, g["m1"]),
     m2 |-> Estimate(db_links[l].m2, g["m2"]),
     m3 |-> Estimate(db_links[l].m3, g["m3"])]

\* the Link objects of a loop that calls get_link once for each link of L
Links(L, gs) == Value([l \in L |-> get_link(l, gs[l])])

\* d[k] on a defaultdict(lambda: np.zeros(sample_size))
Lookup(d, k) == IF k \in DOMAIN d THEN d[k] ELSE zeros

\* ------------------------------------------------ calc_normalized_weights
\* lines 54-59: Z[parent_id] += link.m1.sample * link.m3.sample over the
\* parent's edges into the target; zl[l] is the Link that get_link returned
\* for l on line 57
RECURSIVE AccumulateZ(_, _)
AccumulateZ(ids, zl) ==
    IF ids = <<>> THEN zeros
    ELSE VAdd(AccumulateZ(SubSeq(ids, 1, Len(ids) - 1), zl),
              VMul(zl[ids[Len(ids)]].m1, zl[ids[Len(ids)]].m3))

calc_Z(t, zl) ==
    [p \in predecessors(t) |-> AccumulateZ(get_edge_data(p, t), zl)]

\* lines 55-59: the link ids line 57 gives to get_link, in the order of the
\* two loops
RECURSIVE reads_order(_, _)
reads_order(parents, t) ==
    IF parents = <<>> THEN <<>>
    ELSE get_edge_data(Head(parents), t) \o reads_order(Tail(parents), t)

\* how the first get_link of ids that raises ends, "ok" when none does
RECURSIVE first_raise(_)
first_raise(ids) ==
    IF ids = <<>> THEN "ok"
    ELSE IF get_link_ends(Head(ids)) # "ok" THEN get_link_ends(Head(ids))
    ELSE first_raise(Tail(ids))

\* lines 62-63 for one link of model.links(): get_link, then
\* Z[link.parent_id], a KeyError when Z has no entry for the parent
weight_ends(t, l) ==
    IF get_link_ends(l) # "ok" THEN get_link_ends(l)
    ELSE IF db_links[l].parent_id \notin predecessors(t) THEN "KeyError"
    ELSE "ok"

\* the exceptions calc_normalized_weights can end in on a target of the
\* graph: that of the first get_link of lines 55-59 that raises; else that
\* of the first link of model.links() (a set, in any order) that lines 62-63
\* raise on
weights_raise(t) ==
    IF first_raise(reads_order(predecessors_order(t), t)) # "ok"
    THEN {first_raise(reads_order(predecessors_order(t), t))}
    ELSE {weight_ends(t, l) : l \in links} \ {"ok"}

\* lines 60-64: a weight for every link id of model.links(); wl[l] is the
\* Link that get_link returned for l on line 62
calc_normalized_weights(t, zl, wl) ==
    LET Zt == Value(calc_Z(t, zl))
    IN  [l \in links |-> VDiv(VMul(wl[l].m1, wl[l].m3), Zt[wl[l].parent_id])]

\* ------------------------------------------------------------ aggregation
\* lines 77-82, one parent: cp[parent_id] += normalized_weights[link_id] *
\* link.m2.sample over the parent's edges, from the defaultdict's zeros
RECURSIVE ArithmeticOver(_, _, _)
ArithmeticOver(ids, nw, cl) ==
    IF ids = <<>> THEN zeros
    ELSE VAdd(ArithmeticOver(SubSeq(ids, 1, Len(ids) - 1), nw, cl),
              VMul(Lookup(nw, ids[Len(ids)]), cl[ids[Len(ids)]].m2))

calc_cp_arithmetic(t, nw, cl) ==
    [p \in predecessors(t) |-> ArithmeticOver(get_edge_data(p, t), nw, cl)]

\* lines 95-100, one parent: cp[parent_id] *= link.m2.sample **
\* normalized_weights[link_id], from the defaultdict's zeros
RECURSIVE GeometricOver(_, _, _)
GeometricOver(ids, nw, cl) ==
    IF ids = <<>> THEN zeros
    ELSE VMul(GeometricOver(SubSeq(ids, 1, Len(ids) - 1), nw, cl),
              VPow(cl[ids[Len(ids)]].m2, Lookup(nw, ids[Len(ids)])))

calc_cp_geometric(t, nw, cl) ==
    [p \in predecessors(t) |-> GeometricOver(get_edge_data(p, t), nw, cl)]

\* ---------------------------------------------------------------- noisy or
\* a slip in line 113: + for -
RECURSIVE NoisyProd_plus(_, _)
NoisyProd_plus(cp, ids) ==
    IF ids = <<>> THEN ones
    ELSE VMul(NoisyProd_plus(cp, SubSeq(ids, 1, Len(ids) - 1)),
              VAdd(ones, Lookup(cp, ids[Len(ids)])))

\* lines 111-113: prod *= np.ones(sample_size) - aggregated_cp[parent_id]
RECURSIVE NoisyProd(_, _)
NoisyProd(cp, ids) ==
    IF ids = <<>> THEN ones
    ELSE VMul(NoisyProd(cp, SubSeq(ids, 1, Len(ids) - 1)),
              VSub(ones, Lookup(cp, ids[Len(ids)])))

\* calc_noisy_or(aggregated_cp, parent_ids): the returned array
calc_noisy_or(cp, ids) == VSub(ones, NoisyProd(cp, ids))

\* aggregated_cp after the call: reading a key a defaultdict lacks stores
\* the default under it
RECURSIVE Touched(_, _)
Touched(cp, ids) ==
    IF ids = <<>> THEN cp
    ELSE LET d == Touched(cp, SubSeq(ids, 1, Len(ids) - 1))
             k == ids[Len(ids)]
         IN  IF k \in DOMAIN d THEN d ELSE Store(d, k, zeros)

\* --------------------------------------------------------------- calculate
\* the members of order at the positions I, in the order of order
RECURSIVE Pick(_, _, _)
Pick(order, I, n) ==
    IF n = 0 THEN <<>>
    ELSE Pick(order, I, n - 1) \o (IF n \in I THEN <<order[n]>> ELSE <<>>)

\* itertools.combinations(pred, i)
combinations(order, i) ==
    {Pick(order, I, Len(order)) :
        I \in {J \in SUBSET (1..Len(order)) : Cardinality(J) = i}}

\* lines 37-38: the combos the two loops visit
calculate_combos(order) ==
    UNION {combinations(order, i) : i \in 1..Len(order)}

\* lines 39-40: cpt[combo] = (np.mean(c), np.std(c))
calculate_entry(c) == <<Mean(c), Std2(c)>>

\* a slip: the target is added to the graph before its predecessors are read
calculate_reads_adds(t) ==
    /\ graph_nodes' = graph_nodes \cup {t}
    /\ UNCHANGED <<graph_edges, db_nodes, db_links, db_sources>>

\* what calculate and the functions it calls do to the model:
\* graph.predecessors, graph.get_edge_data, model.links and model.get_link
\* read it
calculate_reads(t) == UNCHANGED model_vars

\* lines 34 and 39-40: cpt is a new defaultdict in every call, and gets one
\* entry for each combo
new_cpt(cs) == [combo \in DOMAIN cs |-> calculate_entry(cs[combo])]

\* quantify.calculate(model, target_node, ag_method), the whole call; the
\* call made before it on the same model becomes prev.  graph.predecessors
\* raises NetworkXError for a node the graph lacks; calc_normalized_weights
\* raises as weights_raise says; else each of the three passes over the
\* links draws its own samples (zg, wg, cg).
calculate(t, m) ==
    /\ t \in NodeIds
    /\ m \in {ARITHMETIC, GEOMETRIC}
    /\ target_node' = t
    /\ ag_method' = m
    /\ IF t \notin graph_nodes \/ weights_raise(t) # {}
       THEN \E error \in (IF t \notin graph_nodes THEN {"NetworkXError"}
                          ELSE weights_raise(t)) :
            /\ outcome' = error
            /\ seen' = [z |-> EmptyMap, w |-> EmptyMap, c |-> EmptyMap]
            /\ Z' = EmptyMap
            /\ weights' = EmptyMap
            /\ aggregated_cp' = EmptyMap
            /\ cp_after' = EmptyMap
            /\ pred' = <<>>
            /\ combined' = EmptyMap
            /\ cpt' = EmptyMap
       ELSE \E order \in Orders(predecessors(t)) :
            \E zg \in LinkDraws(LinksInto(t)), wg \in LinkDraws(links),
               cg \in LinkDraws(LinksInto(t)) :
            \E zl \in {Links(LinksInto(t), zg)} :
            \E wl \in {Links(links, wg)} :
            \E cl \in {Links(LinksInto(t), cg)} :
            \E nw \in {Value(calc_normalized_weights(t, zl, wl))} :
            \E cp \in {Value(IF m = ARITHMETIC THEN calc_cp_arithmetic(t, nw, cl)
                             ELSE calc_cp_geometric(t, nw, cl))} :
            \E cs \in {Value([combo \in calculate_combos(order) |->
                                 calc_noisy_or(cp, combo)])} :
                /\ outcome' = "returned"
                /\ seen' = [z |-> [l \in DOMAIN zl |->
                                     [m1 |-> zl[l].m1, m3 |-> zl[l].m3]],
                            w |-> [l \in DOMAIN wl |->
                                     [m1 |-> wl[l].m1, m3 |-> wl[l].m3]],
                            c |-> [l \in DOMAIN cl |-> [m2 |-> cl[l].m2]]]
                /\ Z' = calc_Z(t, zl)
                /\ weights' = nw
                /\ aggregated_cp' = cp
                /\ cp_after' = Touched(cp, order)
                /\ pred' = order
                /\ combined' = cs
                /\ cpt' = new_cpt(cs)
    /\ prev' = [target_node |-> target_node, ag_method |-> ag_method,
                outcome |-> outcome, cpt |-> cpt]
    /\ calculate_reads(t)
    /\ UNCHANGED <<op, exported, object_vars>>

\* quantification of the models that add_node and add_link build, with
\* links between nodes of the model; identifiers are taken in order
NextQuantify ==
    \/ \E n \in NodeIds : n = Cardinality(db_nodes) + 1 /\ add_node(n)
    \/ \E l \in LinkIds, p \in db_nodes, c \in db_nodes :
       \E ms \in LinkObjects(LinkEstimates(l)) :
          l = Cardinality(graph_edges) + 1 /\ add_link(l, p, c, ms, NoRef)
    \/ \E t \in NodeIds, m \in {ARITHMETIC, GEOMETRIC} :
          outcome = "none" /\ calculate(t, m)

SpecQuantify == Init /\ [][NextQuantify]_vars

\* quantify.export_cpt(output, file_path) with the table of the last
\* calculate call (an empty one when no call returned): open(file_path, 'w')
\* creates the file, empty, and csv.writer(file_path), given the path and not
\* the file, raises TypeError before a row is written
export_cpt ==
    /\ exported.outcome = "none"
    /\ exported' = [outcome |-> "TypeError", file |-> <<>>]
    /\ UNCHANGED <<model_vars, op, object_vars>>
    /\ UNCHANGED <<target_node, ag_method, outcome, seen, Z, weights,
                   aggregated_cp, cp_after, pred, combined, cpt, prev>>

\* a link whose credibility is the point 0
ZeroCredibility ==
    [m1 |-> Est(UNIFORM, Rat(0, 1), Rat(0, 1)),
     m2 |-> Est(UNIFORM, Rat(3, 4), Rat(3, 4)),
     m3 |-> Est(UNIFORM, Rat(1, 1), Rat(1, 1))]

\* every permutation of the tuple q
TuplePerms(q) ==
    {[i \in DOMAIN q |-> q[f[i]]] :
        f \in {g \in [DOMAIN q -> DOMAIN q] : \A i, j \in DOMAIN q : g[i] = g[j] => i = j}}

\* the calls a caller of quantify makes on a model: calculate, once or twice
\* on the same model, and export_cpt; links may have a credibility of 0 and
\* may name a reference of the model, which remove_reference takes away
\* with their rows
NextCalls ==
    \/ \E n \in NodeIds : n = Cardinality(db_nodes) + 1 /\ add_node(n)
    \/ \E l \in LinkIds, p \in db_nodes, c \in db_nodes :
       \E est \in {LinkEstimates(l), ZeroCredibility}, r \in {NoRef} \cup db_sources :
       \E ms \in LinkObjects(est) :
          l = Cardinality(graph_edges) + 1 /\ add_link(l, p, c, ms, r)
    \/ \E r \in RefIds, ob \in ReferenceObjects :
          r \notin db_sources /\ links = {} /\ add_reference(r, ob)
    \/ \E r \in db_sources : remove_reference(r)
    \/ \E t \in NodeIds, m \in {ARITHMETIC, GEOMETRIC} :
          prev.outcome = "none" /\ calculate(t, m)
    \/ export_cpt

SpecCalls == Init /\ [][NextCalls]_vars

\* ------------------------------------------------ calc_noisy_or on its own
\* the values of the aggregated probabilities a caller gives, in and out of
\* [0, 1]
CpValues == {Rat(0, 1), Rat(1, 2), Rat(1, 1), Rat(3, 2)}

\* the dicts a caller gives: a defaultdict(lambda: np.zeros(sample_size))
\* with an array for each node of a set
CpDicts == UNION {[P -> [Idx -> CpValues]] : P \in SUBSET NodeIds}

\* the tuples a caller gives: the nodes of a non-empty set, in any order
ParentTuples == UNION {TuplePerms(Ascending(P)) : P \in (SUBSET NodeIds) \ {{}}}

\* a caller builds a dict
given_cp ==
    /\ aggregated_cp = EmptyMap /\ cp_after = EmptyMap /\ pred = <<>>
    /\ \E cp \in CpDicts :
          /\ aggregated_cp' = Value(cp)
          /\ cp_after' = Value(cp)
    /\ UNCHANGED <<pred, combined>>
    /\ UNCHANGED <<target_node, ag_method, outcome, seen, Z, weights, cpt, prev,
                   exported>>
    /\ UNCHANGED <<model_vars, op, object_vars>>

\* calc_noisy_or(aggregated_cp, parent_ids) called on the dict as it is now:
\* aggregated_cp is the dict as the call found it, cp_after the dict as the
\* call left it, combined the array the call returned
noisy_or(ids) ==
    /\ aggregated_cp' = cp_after
    /\ cp_after' = Touched(cp_after, ids)
    /\ pred' = ids
    /\ combined' = Value([key \in {ids} |-> calc_noisy_or(cp_after, ids)])
    /\ UNCHANGED <<target_node, ag_method, outcome, seen, Z, weights, cpt, prev,
                   exported>>
    /\ UNCHANGED <<model_vars, op, object_vars>>

NextNoisyOr ==
    \/ given_cp
    \/ \E ids \in ParentTuples : noisy_or(ids)

SpecNoisyOr == Init /\ [][NextNoisyOr]_vars

\* ------------------------------------------------- estimates on their own
MaxParam == 4
\* the parameters a and b a caller gives: 0, 1/4, ..
Params == {Rat(k, 4) : k \in 0..MaxParam}
\* the confidence levels a caller gives, in and out of (0, 1)
Confidences == {Rat(0, 1), Rat(1, 2), Rat(19, 20), Rat(1, 1), Rat(3, 2)}

\* Estimate(estimate_type, a, b) of model/estimate.py: __init__ stores the
\* parameters and samples.  rng.uniform(a, b, n) with a > b raises
\* ValueError in the numpy versions that test high - low and returns a
\* sample between b and a in the others.
NewEstimate(t, a, b) ==
    /\ \E g \in Generators :
       \E e \in {Est(t, a, b)} :
       \E out \in (IF t = UNIFORM /\ ~RLe(a, b)
                    THEN {"ValueError", "constructed"} ELSE {"constructed"}) :
          estimate' =
              [class |-> "Estimate", given |-> <<t, a, b, Rat(19, 20)>>,
               outcome |-> out,
               mp |-> IF t = NORMAL THEN normal_mp(e) ELSE NaN,
               sd |-> IF t = NORMAL THEN normal_sd(e) ELSE [num |-> NaN, z |-> NaN],
               sample |-> IF out = "constructed" THEN Estimate(e, g) ELSE <<>>]
    /\ UNCHANGED <<model_vars, op, call_vars, new_link, graph_vars>>

\* Normal(a, b, confidence_level=c) of model/uncertainty.py: __init__ sets
\* point_estimate = (a + b) / 2 and sd = (b - point_estimate) / norm.ppf(c),
\* for any c (a float64 division does not raise); nothing is sampled until
\* sample() is called
NewNormal(a, b, c) ==
    /\ estimate' =
          [class |-> "Normal", given |-> <<NORMAL, a, b, c>>,
           outcome |-> "constructed",
           mp |-> RDiv(RAdd(a, b), Rat(2, 1)),
           sd |-> [num |-> RSub(b, RDiv(RAdd(a, b), Rat(2, 1))), z |-> ppf(c)],
           sample |-> <<>>]
    /\ UNCHANGED <<model_vars, op, call_vars, new_link, graph_vars>>

NextEstimate ==
    \/ \E t \in {UNIFORM, NORMAL}, a \in Params, b \in Params : NewEstimate(t, a, b)
    \/ \E a \in Params, b \in Params, c \in Confidences : NewNormal(a, b, c)

SpecEstimate == Init /\ [][NextEstimate]_vars

\* the calls of dtbasemodel that edit the nodes and the links, and get_link,
\* on any identifiers: the parent of a link need not be a node of the model.
\* The calls on an identifier that is taken (add_*), on a child or on an
\* identifier that is not there raise before they change anything and are
\* left out.  A new link takes the first identifier that is free
\* (the identifiers are names, told apart and nothing else), and add_link
\* is called while the graph has fewer than MaxLinks edges: a call that
\* ends in AttributeError leaves its edge in the graph.
FreeLinkId(l) == l \notin links /\ \A x \in LinkIds \ links : l <= x

NextModel ==
    \/ \E n \in NodeIds \ db_nodes : add_node(n)
    \/ \E l \in LinkIds, p \in NodeIds, c \in db_nodes :
       \E ms \in LinkObjects(LinkEstimates(l)) :
          /\ FreeLinkId(l)
          /\ Cardinality(graph_edges) < MaxLinks
          /\ add_link(l, p, c, ms, NoRef)
    \/ \E n \in db_nodes : remove_node(n)
    \/ \E l \in links : remove_link(l)
    \/ \E l \in links : dtbasemodel_get_link(l)
    \/ clear

SpecModel == Init /\ [][NextModel]_vars

\* every call of dtbasemodel on any identifiers, the calls that raise among
\* them; a link names no reference, one the model has or one it lacks.
\* remove_reference leaves the edges of the rows it deletes in the graph, so
\* a link is added while the graph has fewer than MaxLinks edges.
NextStore ==
    \/ \E n \in NodeIds : add_node(n)
    \/ \E l \in LinkIds, p \in NodeIds, c \in NodeIds, r \in {NoRef} \cup RefIds :
          /\ Cardinality(graph_edges) < MaxLinks
          /\ \E ms \in LinkObjects(LinkEstimates(l)) : add_link(l, p, c, ms, r)
    \/ \E r \in RefIds, ob \in ReferenceObjects : add_reference(r, ob)
    \/ \E n \in NodeIds : remove_node(n)
    \/ \E l \in LinkIds : remove_link(l)
    \/ \E r \in RefIds : remove_reference(r)
    \/ clear
    \/ build_graph
    \/ \E n \in NodeIds : dtbasemodel_get_node(n)
    \/ \E l \in LinkIds : dtbasemodel_get_link(l)
    \/ \E r \in RefIds : dtbasemodel_get_reference(r)

SpecStore == Init /\ [][NextStore]_vars

\* the same calls where each link id stands for one link: link l runs from
\* node l + 1 to node l + 2 (counted round the node ids) and names the
\* reference l, or none when there is no such reference id.  The ends and
\* the reference need not be in the model.
ErrLink(l) ==
    [p |-> (l % MaxNodes) + 1, c |-> ((l + 1) % MaxNodes) + 1,
     r |-> IF l \in RefIds THEN l ELSE NoRef]

NextErrors ==
    \/ \E n \in NodeIds : add_node(n)
    \/ \E l \in LinkIds :
          /\ Cardinality(graph_edges) < MaxLinks
          /\ \E ms \in LinkObjects(LinkEstimates(l)) :
                add_link(l, ErrLink(l).p, ErrLink(l).c, ms, ErrLink(l).r)
    \/ \E r \in RefIds, ob \in ReferenceObjects : add_reference(r, ob)
    \/ \E n \in NodeIds : remove_node(n)
    \/ \E l \in LinkIds : remove_link(l)
    \/ \E r \in RefIds : remove_reference(r)
    \/ clear
    \/ \E n \in NodeIds : dtbasemodel_get_node(n)
    \/ \E l \in LinkIds : dtbasemodel_get_link(l)
    \/ \E r \in RefIds : dtbasemodel_get_reference(r)

SpecErrors == Init /\ [][NextErrors]_vars

\* ----------------------------------------------------- links on their own
\* the objects given for m1, m2 and m3
LinkArgs ==
    {Uniform(Rat(1, 2), Rat(1, 2)), Normal(Rat(0, 1), Rat(1, 2)),
     Obj(Est(UNIFORM, Rat(1, 2), Rat(1, 2))), Float(Rat(1, 2)), None}

\* Link(link_id, parent_id, child_id, m1, m2, m3): TypeError when a test
\* fails, else the object with the arguments as its attributes
NewLink(l, p, c, m1, m2, m3) ==
    /\ new_link' =
          [outcome |-> IF Link_tests(m1, m2, m3) THEN "constructed" ELSE "TypeError",
           link_id |-> l, parent_id |-> p, child_id |-> c,
           m1 |-> m1, m2 |-> m2, m3 |-> m3]
    /\ UNCHANGED <<model_vars, op, call_vars, estimate, graph_vars>>

NextLink ==
    \E l \in LinkIds, p \in NodeIds, c \in NodeIds :
    \E m1 \in LinkArgs, m2 \in LinkArgs, m3 \in LinkArgs :
        NewLink(l, p, c, m1, m2, m3)

SpecLink == Init /\ [][NextLink]_vars

\* ------------------------------------------- the graph model of graph.py
\* model.nodes(): the graph's nodes; model.links(): list(self.link_ids)
model_nodes == nx_graph.nodes
model_links == link_ids

\* the record of a call on the graph model
ModelOp(name, out) == [name |-> name, outcome |-> out]

\* a call on the graph model that raises before it changes anything
model_raises(name, error) ==
    /\ model_op' = ModelOp(name, error)
    /\ UNCHANGED <<nx_graph, link_ids>>

\* the names and the m values a caller gives: an empty and a non-empty name,
\* values in [0, 1] and a value above 1
NodeNames == {"", "name"}
LinkValues == {<<Rat(1, 2), Rat(1, 2), Rat(1, 2)>>, <<Rat(1, 2), Rat(3, 2), Rat(1, 2)>>}

\* model.add_node(id, name): ValueError for a node the graph has; node()
\* asserts the name; graph.add_node
model_add_node(n, name) ==
    /\ n \in NodeIds
    /\ IF n \in nx_graph.nodes
       THEN model_raises("add_node", "ValueError")
       ELSE IF name = ""
       THEN model_raises("add_node", "AssertionError")
       ELSE /\ nx_graph' = [nx_graph EXCEPT !.nodes = @ \cup {n}]
            /\ model_op' = ModelOp("add_node", "ok")
            /\ UNCHANGED link_ids
    /\ UNCHANGED <<model_vars, op, call_vars, estimate, new_link>>

\* model.remove_node(id): graph.remove_node takes the node and its edges out
\* (NetworkXError when the graph has no such node); link_ids is not touched
model_remove_node(n) ==
    /\ n \in NodeIds
    /\ IF n \notin nx_graph.nodes
       THEN model_raises("remove_node", "NetworkXError")
       ELSE /\ nx_graph' = [nodes |-> nx_graph.nodes \ {n},
                            edges |-> {d \in nx_graph.edges : d.u # n /\ d.v # n}]
            /\ model_op' = ModelOp("remove_node", "ok")
            /\ UNCHANGED link_ids
    /\ UNCHANGED <<model_vars, op, call_vars, estimate, new_link>>

\* graph.add_edge(u, v) with no key: new_edge_key(u, v) on the model's graph
model_new_edge_key(u, v) ==
    LET keys == {e.key : e \in {d \in nx_graph.edges : d.u = u /\ d.v = v}}
    IN  FreeKey(keys, Cardinality(keys))

\* the built-in function id, which line 178 passes to has_node: the id of
\* no node
builtin_id == -1

\* link.__init__ of graph.py: the assertion on m1, m2 and m3
link_assert(m) ==
    \A i \in 1..3 : RLe(Zero, m[i]) /\ RLe(m[i], One)

\* model.add_link(link_id, child_id, parent_id, m1, m2, m3): ValueError for a
\* link id in link_ids, for a child and for a parent the graph lacks;
\* link() asserts the values; graph.add_edge and link_ids.add
model_add_link(l, c, p, m) ==
    /\ l \in LinkIds
    /\ IF builtin_id \in nx_graph.nodes \/ l \in link_ids
       THEN model_raises("add_link", "ValueError")
       ELSE IF c \notin nx_graph.nodes
       THEN model_raises("add_link", "ValueError")
       ELSE IF p \notin nx_graph.nodes
       THEN model_raises("add_link", "ValueError")
       ELSE IF ~link_assert(m)
       THEN model_raises("add_link", "AssertionError")
       ELSE /\ nx_graph' = [nx_graph EXCEPT !.edges = @ \cup
                   {[u |-> p, v |-> c, key |-> model_new_edge_key(p, c),
                     link_id |-> l]}]
            /\ link_ids' = link_ids \cup {l}
            /\ model_op' = ModelOp("add_link", "ok")
    /\ UNCHANGED <<model_vars, op, call_vars, estimate, new_link>>

\* model._find_link_helper(link_id): the edges that carry the link id; the
\* helper returns (key, link) of the first, or None when there is none
find_link_helper(l) == {d \in nx_graph.edges : d.link_id = l}

\* model.get_link(link_id): KeyError for an id not in link_ids; the helper's
\* result is subscripted, which raises TypeError on None
model_get_link(l) ==
    /\ l \in LinkIds
    /\ IF l \notin link_ids
       THEN model_raises("get_link", "KeyError")
       ELSE IF find_link_helper(l) = {}
       THEN model_raises("get_link", "TypeError")
       ELSE model_raises("get_link", "ok")
    /\ UNCHANGED <<model_vars, op, call_vars, estimate, new_link>>

\* model.remove_link(link_id): KeyError for an id not in link_ids; the
\* helper's result is unpacked (TypeError on None); graph.remove_edge and
\* link_ids.remove
model_remove_link(l) ==
    /\ l \in LinkIds
    /\ IF l \notin link_ids
       THEN model_raises("remove_link", "KeyError")
       ELSE IF find_link_helper(l) = {}
       THEN model_raises("remove_link", "TypeError")
       ELSE /\ nx_graph' = [nx_graph EXCEPT !.edges = @ \ find_link_helper(l)]
            /\ link_ids' = link_ids \ {l}
            /\ model_op' = ModelOp("remove_link", "ok")
    /\ UNCHANGED <<model_vars, op, call_vars, estimate, new_link>>

\* the rows of a csv file: the row of link l has the ends of ErrLink(l), the
\* names of its two nodes are not empty
CsvRows ==
    {[link_id |-> l, child_id |-> ErrLink(l).c, parent_id |-> ErrLink(l).p, m |-> m] :
        l \in LinkIds, m \in LinkValues}
CsvFiles ==
    {<<>>} \cup {<<r>> : r \in CsvRows}
           \cup {f \in CsvRows \X CsvRows : f[1].link_id # f[2].link_id}

\* import_data, lines 369-376, one row on the model st: add_node for the
\* child and the parent the graph lacks, then add_link
import_row(st, row) ==
    LET nodes == st.graph.nodes \cup {row.child_id, row.parent_id}
        keys == {e.key : e \in {d \in st.graph.edges :
                                   d.u = row.parent_id /\ d.v = row.child_id}}
    IN  IF builtin_id \in nodes \/ row.link_id \in st.link_ids
        THEN [graph |-> [nodes |-> nodes, edges |-> st.graph.edges],
              link_ids |-> st.link_ids, outcome |-> "ValueError"]
        ELSE IF ~link_assert(row.m)
        THEN [graph |-> [nodes |-> nodes, edges |-> st.graph.edges],
              link_ids |-> st.link_ids, outcome |-> "AssertionError"]
        ELSE [graph |-> [nodes |-> nodes,
                         edges |-> st.graph.edges \cup
                             {[u |-> row.parent_id, v |-> row.child_id,
                               key |-> FreeKey(keys, Cardinality(keys)),
                               link_id |-> row.link_id]}],
              link_ids |-> st.link_ids \cup {row.link_id}, outcome |-> "ok"]

\* lines 368-376: the rows in turn, until one raises
RECURSIVE import_rows(_, _)
import_rows(st, rows) ==
    IF rows = <<>> \/ st.outcome # "ok" THEN st
    ELSE import_rows(import_row(st, Head(rows)), Tail(rows))

\* model.import_data(file_path) on a csv file that has a heading and the
\* rows given: graph.clear() (link_ids is not touched), then the rows
model_import_data(rows) ==
    /\ \E st \in {import_rows([graph |-> [nodes |-> {}, edges |-> {}],
                               link_ids |-> link_ids, outcome |-> "ok"], rows)} :
          /\ nx_graph' = st.graph
          /\ link_ids' = st.link_ids
          /\ model_op' = ModelOp("import_data", st.outcome)
    /\ UNCHANGED <<model_vars, op, call_vars, estimate, new_link>>

\* the calls on the graph model.  The calls that raise before they change
\* anything are left out, but for get_link and remove_link, which are made
\* on any link id the model lists; a new link takes the first identifier
\* link_ids does not hold (the identifiers are names).
FreeModelLinkId(l) == l \notin link_ids /\ \A x \in LinkIds \ link_ids : l <= x

NextGraph ==
    \/ \E n \in NodeIds \ nx_graph.nodes, name \in NodeNames \ {""} :
          model_add_node(n, name)
    \/ \E l \in LinkIds :
          /\ FreeModelLinkId(l)
          /\ \E m \in {x \in LinkValues : link_assert(x)} :
             \E c \in nx_graph.nodes, p \in nx_graph.nodes :
                model_add_link(l, c, p, m)
    \/ \E n \in nx_graph.nodes : model_remove_node(n)
    \/ \E l \in link_ids : model_remove_link(l)
    \/ \E l \in LinkIds : model_get_link(l)
    \/ \E rows \in CsvFiles : model_import_data(rows)

SpecGraph == Init /\ [][NextGraph]_vars

\* ================================================================ claims
Returned == outcome = "returned"
Called == outcome # "none"

\* the parents of the target of the recorded call, and parent p's links into it
Parents == predecessors(target_node)
LinksFrom(p) == {e.link_id : e \in {d \in graph_edges : d.u = p /\ d.v = target_node}}

Range(q) == {q[i] : i \in DOMAIN q}

\* the elementwise sum, and product, of the arrays f[x], x in S
RECURSIVE SumOver(_, _)
SumOver(S, f) ==
    IF S = {} THEN zeros
    ELSE LET x == CHOOSE y \in S : TRUE
         IN  VAdd(f[x], SumOver(S \ {x}, f))
RECURSIVE ProdOver(_, _)
ProdOver(S, f) ==
    IF S = {} THEN ones
    ELSE LET x == CHOOSE y \in S : TRUE
         IN  VMul(f[x], ProdOver(S \ {x}, f))

\* u <= v at every sample index
VLe(u, v) == \A i \in Idx : RLe(u[i], v[i])

\* a calculate call on a node of the graph that has parents
CalledWithParents == Called /\ target_node \in graph_nodes /\ Parents # {}

\* C1 (as claimed): for a target with parents calc_normalized_weights
\* returns weights, and the weights of a parent's links into the target sum
\* to 1 at every sample index, for every parent of the target.
C1_WeightsSumToOne ==
    CalledWithParents =>
        /\ Returned
        /\ \A p \in Parents : SumOver(LinksFrom(p), weights) = ones

\* C2 (as claimed): for a target with k >= 1 parents calculate returns a
\* table of exactly 2^k - 1 entries: every key lists a non-empty subset of
\* the parents without repetition, and every non-empty subset is listed by a
\* key.
C2_TableSize ==
    CalledWithParents =>
        /\ Returned
        /\ Cardinality(DOMAIN cpt) = IPow(2, Cardinality(Parents)) - 1
        /\ \A key \in DOMAIN cpt : Cardinality(Range(key)) = Len(key)
        /\ {Range(key) : key \in DOMAIN cpt} = (SUBSET Parents) \ {{}}

\* C3 (as claimed): calculate returns a table with a key for each subset of
\* the parents, and every key is the tuple of its parents sorted by id.
C3_KeysSorted ==
    CalledWithParents =>
        /\ Returned
        /\ DOMAIN cpt # {}
        /\ \A key \in DOMAIN cpt : key = Ascending(Range(key))

\* C4 (as claimed): calculate on a node of the graph that has no
\* predecessors fails with NoPredecessorsError.
C4_NoPredecessorsError ==
    (Called /\ target_node \in graph_nodes /\ Parents = {}) =>
        outcome = "NoPredecessorsError"

\* C5 (as claimed): calc_cp_geometric gives every parent the product, from
\* the all-ones vector, of m2.sample ** weight over its links into the target.
C5_GeometricProduct ==
    (CalledWithParents /\ ag_method = GEOMETRIC) =>
        /\ Returned
        /\ \A p \in Parents :
              aggregated_cp[p] =
                  ProdOver(LinksFrom(p),
                           [l \in LinksFrom(p) |-> VPow(seen.c[l].m2, weights[l])])

\* C6 (as claimed): calc_cp_arithmetic returns an entry for the parents of
\* the target and no other node, and a parent's entry is the sum over its
\* links into the target of the link's normalized weight times the link's
\* m2 sample.
C6_ArithmeticSum ==
    (CalledWithParents /\ ag_method = ARITHMETIC) =>
        /\ Returned
        /\ DOMAIN aggregated_cp = Parents
        /\ \A p \in Parents :
              aggregated_cp[p] =
                  SumOver(LinksFrom(p),
                          [l \in LinksFrom(p) |-> VMul(weights[l], seen.c[l].m2)])

\* C7 (as claimed): for a target with a predecessor calc_normalized_weights
\* completes without raising, and only the links into the target get a
\* weight.
C7_TargetLinksOnly ==
    CalledWithParents =>
        /\ outcome \notin {"KeyError", "TypeError"}
        /\ DOMAIN weights \subseteq LinksInto(target_node)

\* C8 (as claimed): calc_noisy_or returns 1 minus the product over the
\* parents of the tuple of (1 - aggregated_cp[p]), so that calculate on a
\* target with one parent and one link returns a table whose one entry is
\* the mean and the deviation of that parent's aggregated probability.
C8_NoisyOr ==
    (/\ CalledWithParents
     /\ Cardinality(Parents) = 1
     /\ Cardinality(LinksInto(target_node)) = 1) =>
        /\ Returned
        /\ \A key \in DOMAIN combined :
              combined[key] =
                  VSub(ones, ProdOver(Range(key),
                                      [p \in Range(key) |->
                                          VSub(ones, Lookup(aggregated_cp, p))]))
        /\ \A p \in Parents :
              /\ <<p>> \in DOMAIN cpt
              /\ cpt[<<p>>] = calculate_entry(Lookup(aggregated_cp, p))

\* a calc_noisy_or call was made, the last one on the tuple pred
NoisyOrCalled == pred # <<>> /\ pred \in DOMAIN combined

CpInUnitInterval ==
    \A p \in DOMAIN aggregated_cp : VLe(zeros, aggregated_cp[p]) /\ VLe(aggregated_cp[p], ones)

\* C10: when every aggregated probability lies in [0, 1], adding a parent to
\* a tuple does not lower the noisy-or at any sample index, and the noisy-or
\* of a tuple is at least each member's aggregated probability.
C10_Monotone ==
    (NoisyOrCalled /\ CpInUnitInterval /\ Range(pred) \subseteq DOMAIN aggregated_cp) =>
        /\ \A q \in DOMAIN aggregated_cp \ Range(pred) :
              VLe(combined[pred], calc_noisy_or(aggregated_cp, Append(pred, q)))
        /\ \A p \in Range(pred) : VLe(aggregated_cp[p], combined[pred])

\* two parents with probabilities in [0, 1], and the pair's noisy-or above
\* both of them
C10_Witness ==
    /\ NoisyOrCalled
    /\ CpInUnitInterval
    /\ Len(pred) = 2
    /\ Range(pred) \subseteq DOMAIN aggregated_cp
    /\ \A p \in Range(pred) : combined[pred] # aggregated_cp[p]

\* the midpoint (a + b) / 2
Midpoint(a, b) == RDiv(RAdd(a, b), Rat(2, 1))

\* C11 (as claimed): an Estimate of type NORMAL with the parameters (a, b) is
\* sampled with the mean (a + b) / 2 and the standard deviation
\* (b - (a + b) / 2) / z, z = ppf(.95), and its sample is a draw with these
\* two parameters.
C11_NormalParameters ==
    (estimate.class = "Estimate" /\ estimate.given[1] = NORMAL) =>
        LET a == estimate.given[2]
            b == estimate.given[3]
        IN  /\ estimate.mp = Midpoint(a, b)
            /\ estimate.sd = [num |-> RSub(b, Midpoint(a, b)), z |-> ppf(Rat(19, 20))]
            /\ \E g \in Generators :
                  estimate.sample =
                      rng_normal(Midpoint(a, b), RSub(b, Midpoint(a, b)), g)

\* C12 (as claimed): a UNIFORM estimate with a > b, and a NORMAL estimate
\* with a confidence level outside (0, 1), end in ConfigurationError with no
\* sample.
C12_ConfigurationError ==
    LET t == estimate.given[1]
        a == estimate.given[2]
        b == estimate.given[3]
        c == estimate.given[4]
    IN  (/\ estimate.outcome # "none"
         /\ \/ t = UNIFORM /\ ~RLe(a, b)
            \/ t = NORMAL /\ ~(RLe(Zero, c) /\ RLe(c, One) /\ c # Zero /\ c # One))
        => estimate.outcome = "ConfigurationError" /\ estimate.sample = <<>>

\* C13 (as claimed): calculate on a target with a link whose credibility is
\* the point 0, so that the denominator Z[p] of its parent is zero, fails
\* with DegenerateWeightError.
C13_NoZeroDenominator ==
    (/\ Called
     /\ target_node \in graph_nodes
     /\ \E l \in LinksInto(target_node) \cap links :
           /\ db_links[l].m1 = ZeroCredibility.m1
           /\ Cardinality(LinksFrom(db_links[l].parent_id)) = 1)
        => outcome = "DegenerateWeightError"

\* C14 (as claimed): export after a calculate that returned succeeds; any
\* other export fails with NotReadyError and leaves no file.
C14_ExportLifecycle ==
    exported.outcome # "none" =>
        IF Returned THEN exported.outcome = "ok"
        ELSE exported = [outcome |-> "NotReadyError", file |-> "absent"]

\* C15: a calculate call, whether it returns or raises, leaves the model as
\* it was: the graph's nodes and edges and the store's node, link and
\* reference records.
C15_ModelUnchanged ==
    [][outcome' # "none" =>
          /\ graph_nodes' = graph_nodes
          /\ graph_edges' = graph_edges
          /\ db_nodes' = db_nodes
          /\ db_links' = db_links
          /\ db_sources' = db_sources]_vars

\* a call that raised on a model with links
C15_Witness ==
    outcome = "TypeError" /\ links # {} /\ graph_edges # {}

\* C16 (as claimed): two calculate calls on the same model with the same
\* target and the same method return the same table.
C16_SameTable ==
    (/\ Called
     /\ prev.outcome # "none"
     /\ target_node \in graph_nodes
     /\ prev.target_node = target_node
     /\ prev.ag_method = ag_method)
        => (Returned /\ prev.outcome = "returned" /\ cpt = prev.cpt)

\* the stored links x and y join the same ordered (parent, child) pair
SamePair(x, y) ==
    /\ db_links[x].parent_id = db_links[y].parent_id
    /\ db_links[x].child_id = db_links[y].child_id

\* C17 (as claimed): the parent and the child of every stored link are nodes
\* of the model.
C17_LinkEndsExist ==
    \A l \in links :
        db_links[l].parent_id \in db_nodes /\ db_links[l].child_id \in db_nodes

\* C18: no two stored links of one ordered (parent, child) pair have the same
\* edge key, and the edge key a stored link's row records is the key of its
\* edge in the graph: the graph has the edge of the row's pair under the
\* row's key, with the link's id.
C18_EdgeKeys ==
    /\ \A x, y \in links :
          (x # y /\ SamePair(x, y)) => db_links[x].edge_key # db_links[y].edge_key
    /\ \A l \in links :
          [u |-> db_links[l].parent_id, v |-> db_links[l].child_id,
           key |-> db_links[l].edge_key, link_id |-> l]
              \in {Edge(d) : d \in graph_edges}

\* add_link has just stored a second link of a pair: the two have the keys
\* 0 and 1
C18_Witness ==
    /\ (op.name = "add_link" /\ op.outcome = "ok")
    /\ \E x, y \in links :
          /\ SamePair(x, y)
          /\ db_links[x].edge_key = 0
          /\ db_links[y].edge_key = 1
          /\ x > y

\* C19 (as claimed): add_link of a link with a free id and a child that is a
\* node succeeds also when links of the same pair are stored, the links
\* stored before stay listed with their rows and the new link is listed with
\* them; get_link of a listed link returns it.
C19_ParallelLinks ==
    [][/\ op'.name = "add_link" =>
             /\ op'.outcome = "ok"
             /\ \A x \in links : x \in links' /\ db_links'[x] = db_links[x]
             /\ Cardinality(links' \ links) = 1
       /\ op'.name = "get_link" => op'.outcome = "ok"]_vars

\* C20: remove_node(n) of a node n removes n from the store and the graph
\* with every link row and every edge whose parent or child is n, and leaves
\* every other node, row and edge as it was.
C20_RemoveNodeCascades ==
    [][op'.name = "remove_node" =>
          \E n \in db_nodes :
              /\ n = op'.id
              /\ db_nodes' = db_nodes \ {n}
              /\ graph_nodes' = graph_nodes \ {n}
              /\ links' = {x \in links : db_links[x].parent_id # n /\ db_links[x].child_id # n}
              /\ \A x \in links' : db_links'[x] = db_links[x]
              /\ {Edge(d) : d \in graph_edges'} =
                    {Edge(d) : d \in {x \in graph_edges : x.u # n /\ x.v # n}}]_vars

\* remove_node has just run, and of two links the second is the one left:
\* the first went with the node
C20_Witness ==
    /\ (op.name = "remove_node" /\ op.outcome = "ok")
    /\ links = {2}
    /\ db_nodes # {}

\* C21 (as claimed): identifiers are unique.  An add_node, add_link or
\* add_reference call that raises raises ValueError (or, for add_link,
\* KeyError for the child) and leaves the graph and the store as they were,
\* and every such call that does not raise was given an id the model did
\* not have: it adds one node, link or reference.
C21_UniqueIds ==
    [][/\ (op'.name \in {"add_node", "add_link", "add_reference"}
               /\ op'.outcome # "ok")
          => (op'.outcome \in {"ValueError", "KeyError"} /\ UNCHANGED model_vars)
       /\ (op'.name = "add_link" /\ op'.outcome = "KeyError") => db_nodes # NodeIds
       /\ (op'.name = "add_node" /\ op'.outcome = "ok")
          => (/\ Cardinality(db_nodes') = Cardinality(db_nodes) + 1
              /\ UNCHANGED <<db_links, db_sources>>)
       /\ (op'.name = "add_link" /\ op'.outcome = "ok")
          => (/\ Cardinality(links') = Cardinality(links) + 1
              /\ Cardinality(graph_edges') = Cardinality(graph_edges) + 1
              /\ UNCHANGED <<db_nodes, db_sources>>)
       /\ (op'.name = "add_reference" /\ op'.outcome = "ok")
          => (/\ Cardinality(db_sources') = Cardinality(db_sources) + 1
              /\ UNCHANGED <<db_nodes, db_links>>)]_vars

\* C22: get_node, get_link, get_reference, remove_node, remove_link and
\* remove_reference, called with an id that the model's table of nodes, of
\* links or of references lacks, raise KeyError and leave the graph and the
\* store as they were; and a call of these that raises KeyError was given
\* an id its table lacks.
C22_MissingIds ==
    [][/\ op'.name \in {"get_node", "remove_node"}
          => /\ op'.id \notin db_nodes
                => (op'.outcome = "KeyError" /\ UNCHANGED model_vars)
             /\ op'.outcome = "KeyError" => op'.id \notin db_nodes
       /\ op'.name \in {"get_link", "remove_link"}
          => /\ op'.id \notin links
                => (op'.outcome = "KeyError" /\ UNCHANGED model_vars)
             /\ op'.outcome = "KeyError" => op'.id \notin links
       /\ op'.name \in {"get_reference", "remove_reference"}
          => /\ op'.id \notin db_sources
                => (op'.outcome = "KeyError" /\ UNCHANGED model_vars)
             /\ op'.outcome = "KeyError" => op'.id \notin db_sources]_vars

\* get_link raised KeyError on the id of a link the model lacks, in a model
\* that has a node and another link
C22_Witness ==
    /\ op.name = "get_link" /\ op.outcome = "KeyError"
    /\ op.id \notin links
    /\ links # {}
    /\ db_nodes # {}

\* C23 (as claimed): a calculate call carries nothing over from the call
\* before it: the second of two calls, on a node of the graph, returns a
\* table that has exactly the combos of its own target's parents as keys,
\* each entry the mean and the deviation of the array this call combined.
C23_NoCarryOver ==
    (Called /\ prev.outcome # "none" /\ target_node \in graph_nodes) =>
        /\ Returned
        /\ {Range(key) : key \in DOMAIN cpt} = (SUBSET Parents) \ {{}}
        /\ \A key \in DOMAIN cpt :
              cpt[key] = calculate_entry(calc_noisy_or(aggregated_cp, key))

\* C24: a newly constructed graph model is empty: before any call on it,
\* nodes() and links() have length 0.
C24_NewModelEmpty ==
    model_op.name = "__init__" =>
        Cardinality(model_nodes) = 0 /\ Cardinality(model_links) = 0

\* the graph model as the constructor left it
C24_Witness ==
    /\ model_op = [name |-> "__init__", outcome |-> "ok"]
    /\ nx_graph.edges = {}

\* C25 (as claimed): in the graph model, link_ids is the set of the link_id
\* attributes of the graph's edges, and get_link returns the link or raises
\* KeyError.
C25_LinkIdsAreEdges ==
    /\ link_ids = {d.link_id : d \in nx_graph.edges}
    /\ model_op.name = "get_link" => model_op.outcome \in {"ok", "KeyError"}

\* C26 (as claimed): a Link that was constructed holds three Estimates, and
\* a construction with an m that is no Estimate raised TypeError.
C26_ThreeEstimates ==
    /\ new_link.outcome = "constructed" =>
          /\ isinstance_Estimate(new_link.m1)
          /\ isinstance_Estimate(new_link.m2)
          /\ isinstance_Estimate(new_link.m3)
    /\ (/\ new_link.outcome # "none"
        /\ \/ ~isinstance_Estimate(new_link.m1)
           \/ ~isinstance_Estimate(new_link.m2)
           \/ ~isinstance_Estimate(new_link.m3))
          => new_link.outcome = "TypeError"

\* C27 (as claimed): the graph and the store of dtbasemodel agree: the
\* graph's nodes are the store's node ids and its edges are the store's link
\* rows (same link id, parent, child and edge key), one edge for each row.
C27_GraphIsStore ==
    /\ graph_nodes = db_nodes
    /\ {Edge(d) : d \in graph_edges} =
          {[u |-> db_links[l].parent_id, v |-> db_links[l].child_id,
            key |-> db_links[l].edge_key, link_id |-> l] : l \in links}

\* C28 (as claimed): the ref_id of every stored link is empty or the id of a
\* reference in the store.
C28_RefIdsExist ==
    \A l \in links :
        db_links[l].ref_id = NoRef \/ db_links[l].ref_id \in db_sources

====
